---- MODULE Spec2Model ----
(***************************************************************************)
(* Model of onmt/Models.py: the decoder state (RNNDecoderState), the       *)
(* recurrent decoders that thread it through forward calls, and the        *)
(* encoders' argument check.                                               *)
(*                                                                         *)
(* A tensor of shape [d0, d1, d2] is a sequence of d0 slices, each a       *)
(* sequence of d1 rows, each a sequence of d2 numbers.  Sequences are      *)
(* 1-based; the indices the Python code passes around (idx, positions)     *)
(* are kept 0-based and shifted where a tensor is indexed.                 *)
(***************************************************************************)
EXTENDS Integers, Sequences, FiniteSets, TLC

VARIABLES dec, state, ret, nsteps, enc

vars == <<dec, state, ret, nsteps, enc>>

(* ------------------------------ bounds --------------------------------- *)
MaxLayers == 2
MaxBatch == 2
MaxBeam == 2
MaxRows == 4
MaxDim == 1
MaxSteps == 2
MaxTgtLen == 2
MaxSrcLen == 2
MaxMatchBatch == 3

(* ------------------------------ tensors -------------------------------- *)
None == <<>>

size(t) == <<Len(t), Len(t[1]), Len(t[1][1])>>

Max(a, b) == IF a >= b THEN a ELSE b

\* tensor.new(rows, width).zero_().unsqueeze(0)
zeros(rows, width) == << [r \in 1..rows |-> [k \in 1..width |-> 0]] >>

\* the two halves of h, had the directions been stored one after the other
stride2_halves(h, start) ==
    [i \in 1..(Len(h) \div 2) |-> h[start * (Len(h) \div 2) + i]]

\* h[start:h.size(0):2]
stride2(h, start) ==
    [i \in 1..((Len(h) - start + 1) \div 2) |-> h[start + 2 * (i - 1) + 1]]

\* torch.cat([a, b], 2)
cat2(a, b) == [l \in 1..Len(a) |-> [r \in 1..Len(a[l]) |-> a[l][r] \o b[l][r]]]

\* every row repeated beam_size times in place, as repeat_interleave does
repeat_interleave(e, beam_size) ==
    [l \in 1..Len(e) |->
        [j \in 1..(beam_size * Len(e[l])) |-> e[l][((j - 1) \div beam_size) + 1]]]

\* e.data.repeat(1, beam_size, 1)
repeat(e, beam_size) ==
    [l \in 1..Len(e) |->
        [j \in 1..(beam_size * Len(e[l])) |-> e[l][((j - 1) % Len(e[l])) + 1]]]

\* e.view(sizes[0], beam_size, br // beam_size, sizes[2]): the same numbers in
\* row-major order, the flat row s * (br // beam_size) + b becoming [s][b]
view(e, beam_size) ==
    LET nb == Len(e[1]) \div beam_size
    IN  [l \in 1..Len(e) |->
            [s \in 1..beam_size |-> [b \in 1..nb |-> e[l][(s - 1) * nb + b]]]]

\* x[:, :, idx]
select2(v, idx) == [l \in 1..Len(v) |-> [s \in 1..Len(v[l]) |-> v[l][s][idx + 1]]]

\* index_select, had positions been read as counting from 1
index_select_shifted(t, positions) ==
    [l \in 1..Len(t) |->
        [i \in 1..Len(positions) |->
            t[l][IF positions[i] = 0 THEN Len(t[l]) ELSE positions[i]]]]

\* t.index_select(1, positions): a new tensor
index_select(t, positions) ==
    [l \in 1..Len(t) |-> [i \in 1..Len(positions) |-> t[l][positions[i] + 1]]]

\* the write, had it gone to the beam slots of every sentence
copy_into_every_sentence(e, beam_size, idx, src) ==
    LET nb == Len(e[1]) \div beam_size
    IN  [l \in 1..Len(e) |->
            [r \in 1..Len(e[l]) |-> src[l][((r - 1) \div nb) + 1]]]

\* sent_states.data.copy_(src) where sent_states is view(e)[:, :, idx]: the
\* write goes through the view into e's storage
copy_into(e, beam_size, idx, src) ==
    LET nb == Len(e[1]) \div beam_size
    IN  [l \in 1..Len(e) |->
            [r \in 1..Len(e[l]) |->
                IF (r - 1) % nb = idx THEN src[l][((r - 1) \div nb) + 1]
                ELSE e[l][r]]]

(* --------------------------- decoder state ----------------------------- *)
NoState == [hidden |-> <<>>, input_feed |-> None, coverage |-> None]

_all(st) == st.hidden \o <<st.input_feed>>

\* one pass of the loop body of beam_update
beam_update_one(e, idx, positions, beam_size) ==
    LET sent_states == select2(view(e, beam_size), idx)
    IN  copy_into(e, beam_size, idx, index_select(sent_states, positions))

beam_update(st, idx, positions, beam_size) ==
    LET a == _all(st)
        b == [i \in 1..Len(a) |-> beam_update_one(a[i], idx, positions, beam_size)]
    IN  [st EXCEPT !.hidden = SubSeq(b, 1, Len(b) - 1),
                   !.input_feed = b[Len(b)]]

repeat_beam_size_times(st, beam_size) ==
    LET a == _all(st)
        v == [i \in 1..Len(a) |-> repeat(a[i], beam_size)]
    IN  [st EXCEPT !.hidden = SubSeq(v, 1, Len(v) - 1),
                   !.input_feed = v[Len(v)]]

update_state(st, rnnstate, input_feed, coverage) ==
    [hidden |-> rnnstate, input_feed |-> input_feed, coverage |-> coverage]

\* RNNDecoderState.__init__
RNNDecoderState(hidden_size, rnnstate) ==
    [hidden |-> rnnstate,
     coverage |-> None,
     input_feed |-> zeros(Len(rnnstate[1][1]), hidden_size)]

_fix_enc_hidden(d, h) ==
    IF d.bidirectional_encoder THEN cat2(stride2(h, 0), stride2(h, 1)) ELSE h

\* encoder_final is the sequence of its channels: two for an LSTM pair, one
\* for a single tensor (which RNNDecoderState wraps into a 1-tuple)
init_decoder_state(d, encoder_final) ==
    RNNDecoderState(d.hidden_size,
        [c \in 1..Len(encoder_final) |-> _fix_enc_hidden(d, encoder_final[c])])

(* ---------------------------- collaborators ---------------------------- *)
\* onmt.Utils.aeq: whether the assertion that the arguments are equal passes
aeq(a, b) == a = b

RECURSIVE Sum(_)
Sum(s) == IF s = <<>> THEN 0 ELSE Head(s) + Sum(Tail(s))

\* the weight of a whole distribution, in the units the weights are counted in
Unit(src_len) == src_len + 2

\* self.embeddings(tgt): [tgt_len, batch, nfeat] -> [tgt_len, batch, emb_dim]
embeddings(tgt) == [t \in 1..Len(tgt) |-> [r \in 1..Len(tgt[t]) |-> <<Sum(tgt[t][r])>>]]

\* one step of the recurrent cell on every row: input [batch, in],
\* hidden a sequence of channels [layers, batch, hidden]
rnn_step(input, hidden) ==
    LET h == [c \in 1..Len(hidden) |->
                [l \in 1..Len(hidden[c]) |->
                    [r \in 1..Len(hidden[c][l]) |->
                        [k \in 1..Len(hidden[c][l][r]) |->
                            2 * hidden[c][l][r][k] + Sum(input[r]) + c + l]]]]
    IN  [output |-> h[1][Len(h[1])], hidden |-> h]

\* the number of memory positions row r may attend to
mem_len(memory_lengths, r, src_len) ==
    IF memory_lengths = None THEN src_len ELSE memory_lengths[r]

\* GlobalAttention on one step: query [batch, hidden], memory_bank
\* [src_len, batch, hidden] -> (attn_h [batch, hidden], align [batch, src_len]);
\* each row of align is a distribution (its weights sum to Unit) that is zero
\* beyond the row's memory length
GlobalAttention(query, memory_bank, memory_lengths, bias) ==
    LET S == Len(memory_bank)
        align == [r \in 1..Len(query) |->
                    LET n == mem_len(memory_lengths, r, S)
                        peak == ((Sum(query[r]) + bias) % n) + 1
                    IN  [j \in 1..S |->
                            IF j > n THEN 0
                            ELSE IF j = peak THEN Unit(S) - (n - 1) ELSE 1]]
        attn_h == [r \in 1..Len(query) |->
                    [k \in 1..Len(query[r]) |->
                        query[r][k]
                          + Sum([j \in 1..S |-> align[r][j] * memory_bank[j][r][k]])]]
    IN  [attn_h |-> attn_h, align |-> align]

\* a + b on [rows, cols] matrices, with torch's broadcasting of axes of size 1
broadcastable(a, b) ==
    /\ (Len(a) = Len(b) \/ Len(a) = 1 \/ Len(b) = 1)
    /\ (Len(a[1]) = Len(b[1]) \/ Len(a[1]) = 1 \/ Len(b[1]) = 1)

add(a, b) ==
    [r \in 1..Max(Len(a), Len(b)) |->
        [j \in 1..Max(Len(a[1]), Len(b[1])) |->
            a[IF Len(a) = 1 THEN 1 ELSE r][IF Len(a[1]) = 1 THEN 1 ELSE j]
              + b[IF Len(b) = 1 THEN 1 ELSE r][IF Len(b[1]) = 1 THEN 1 ELSE j]]]

(* ------------------------------ decoders ------------------------------- *)
\* a failed call, with the collaborators it had called before it failed
Failed(why, calls) == [ok |-> FALSE, why |-> why, calls |-> calls]

\* the running coverage, had every call started it afresh
next_coverage_fresh(coverage, p_attn) == p_attn

\* coverage = coverage + p_attn if coverage is not None else p_attn
next_coverage(coverage, p_attn) ==
    IF coverage # None THEN add(coverage, p_attn) ELSE p_attn

\* the body of the loop of InputFeedRNNDecoder._run_forward_pass for one step;
\* acc carries the loop's variables
inputfeed_step(d, emb_t, memory_bank, memory_lengths, acc) ==
    LET decoder_input == [r \in 1..Len(emb_t) |-> emb_t[r] \o acc.input_feed[r]]
        cell == rnn_step(decoder_input, acc.hidden)
        att == GlobalAttention(cell.output, memory_bank, memory_lengths, 0)
        decoder_output == att.attn_h
        p_attn == att.align
        cov_ok == ~d.coverage \/ acc.coverage = None
                    \/ broadcastable(acc.coverage, p_attn)
        coverage == IF d.coverage /\ cov_ok
                    THEN next_coverage(acc.coverage, p_attn) ELSE acc.coverage
        separate == d.copy /\ ~d.reuse_copy_attn /\ cov_ok
        copy_attn == GlobalAttention(decoder_output, memory_bank, None, 1).align
    IN  [ok |-> cov_ok,
         calls |-> acc.calls \o <<"rnn", "attn">>
                     \o (IF separate THEN <<"copy_attn">> ELSE <<>>),
         input_feed |-> decoder_output,
         hidden |-> cell.hidden,
         coverage |-> coverage,
         decoder_outputs |-> Append(acc.decoder_outputs, decoder_output),
         std |-> Append(acc.std, p_attn),
         cov |-> IF d.coverage THEN Append(acc.cov, coverage) ELSE acc.cov,
         copy |-> IF separate THEN Append(acc.copy, copy_attn) ELSE acc.copy]

RECURSIVE inputfeed_loop(_, _, _, _, _, _)
inputfeed_loop(d, emb, memory_bank, memory_lengths, acc, t) ==
    IF t > Len(emb) \/ ~acc.ok THEN acc
    ELSE inputfeed_loop(d, emb, memory_bank, memory_lengths,
            inputfeed_step(d, emb[t], memory_bank, memory_lengths, acc), t + 1)

\* the attention dictionary the loop leaves: its keys are the domain
inputfeed_attns(d, acc) ==
    [k \in {"std"} \cup (IF d.copy THEN {"copy"} ELSE {})
                   \cup (IF d.coverage THEN {"coverage"} ELSE {}) |->
        IF k = "std" THEN acc.std
        ELSE IF k = "copy"
             THEN (IF d.reuse_copy_attn THEN acc.std ELSE acc.copy)
             ELSE acc.cov]

InputFeed_run_forward_pass(d, tgt, memory_bank, st, memory_lengths) ==
    LET input_feed == st.input_feed[1]
    IN  IF ~aeq(Len(tgt[1]), Len(input_feed)) THEN Failed("aeq input_feed", <<>>)
        ELSE LET acc0 == [ok |-> TRUE,
                          calls |-> <<"embeddings">>,
                          input_feed |-> input_feed,
                          hidden |-> st.hidden,
                          coverage |-> IF st.coverage # None
                                       THEN st.coverage[1] ELSE None,
                          decoder_outputs |-> <<>>, std |-> <<>>,
                          cov |-> <<>>, copy |-> <<>>]
                 acc == inputfeed_loop(d, embeddings(tgt), memory_bank,
                                       memory_lengths, acc0, 1)
             IN  IF ~acc.ok THEN Failed("coverage shape", acc.calls)
                 ELSE [ok |-> TRUE,
                       calls |-> acc.calls,
                       decoder_final |-> acc.hidden,
                       decoder_outputs |-> acc.decoder_outputs,
                       attns |-> inputfeed_attns(d, acc)]

\* nn.LSTM / nn.GRU over the whole sequence: the cell, step after step
RECURSIVE rnn_seq(_, _, _, _)
rnn_seq(emb, hidden, outputs, t) ==
    IF t > Len(emb) THEN [output |-> outputs, hidden |-> hidden]
    ELSE LET cell == rnn_step(emb[t], hidden)
         IN  rnn_seq(emb, cell.hidden, Append(outputs, cell.output), t + 1)

\* StdRNNDecoder._run_forward_pass below its two assertions
Std_batched_pass(d, tgt, memory_bank, st, memory_lengths) ==
    IF Len(tgt[1]) # Len(st.hidden[1][1])
    THEN Failed("rnn hidden batch", <<"embeddings", "rnn">>)
    ELSE LET emb == embeddings(tgt)
             h0 == IF d.rnn_type = "GRU" THEN <<st.hidden[1]>> ELSE st.hidden
             run == rnn_seq(emb, h0, <<>>, 1)
             att == [t \in 1..Len(emb) |->
                        GlobalAttention(run.output[t], memory_bank,
                                        memory_lengths, 0)]
         IN  [ok |-> TRUE,
              calls |-> <<"embeddings", "rnn", "attn">>,
              decoder_final |-> run.hidden,
              decoder_outputs |-> [t \in 1..Len(emb) |-> att[t].attn_h],
              attns |-> [k \in {"std"} |-> [t \in 1..Len(emb) |-> att[t].align]]]

Std_run_forward_pass_unguarded(d, tgt, memory_bank, st, memory_lengths) ==
    Std_batched_pass(d, tgt, memory_bank, st, memory_lengths)

Std_run_forward_pass(d, tgt, memory_bank, st, memory_lengths) ==
    IF d.copy THEN Failed("assert not copy", <<>>)
    ELSE IF d.coverage THEN Failed("assert not coverage", <<>>)
    ELSE Std_batched_pass(d, tgt, memory_bank, st, memory_lengths)

_run_forward_pass(d, tgt, memory_bank, st, memory_lengths) ==
    IF d.kind = "std"
    THEN Std_run_forward_pass(d, tgt, memory_bank, st, memory_lengths)
    ELSE InputFeed_run_forward_pass(d, tgt, memory_bank, st, memory_lengths)

\* s[0], the slip of taking the first step for the last
First(s) == s[1]

\* s[-1]
Last(s) == s[Len(s)]

\* RNNDecoderBase.forward from the result of _run_forward_pass on: the
\* returned triple, and the state the call leaves
forward_update(st, run) ==
    IF ~run.ok
    THEN [ok |-> FALSE, why |-> run.why, calls |-> run.calls, state |-> st]
    ELSE LET final_output == Last(run.decoder_outputs)
             coverage == IF "coverage" \in DOMAIN run.attns
                         THEN <<Last(run.attns["coverage"])>>
                         ELSE None
         IN  [ok |-> TRUE,
              why |-> "",
              calls |-> run.calls,
              state |-> update_state(st, run.decoder_final,
                                     <<final_output>>, coverage),
              decoder_final |-> run.decoder_final,
              decoder_outputs |-> run.decoder_outputs,
              attns |-> run.attns]

\* forward, had it reset the input feed on entry
forward_resetting(d, tgt, memory_bank, st, memory_lengths) ==
    LET reset == [st EXCEPT !.input_feed = zeros(Len(st.input_feed[1]),
                                                  Len(st.input_feed[1][1]))]
    IN  IF ~aeq(Len(tgt[1]), Len(memory_bank[1]))
        THEN [ok |-> FALSE, why |-> "aeq memory", calls |-> <<>>,
              state |-> reset]
        ELSE forward_update(reset,
                _run_forward_pass(d, tgt, memory_bank, reset, memory_lengths))

\* RNNDecoderBase.forward
forward(d, tgt, memory_bank, st, memory_lengths) ==
    IF ~aeq(Len(tgt[1]), Len(memory_bank[1]))
    THEN [ok |-> FALSE, why |-> "aeq memory", calls |-> <<>>, state |-> st]
    ELSE forward_update(st,
            _run_forward_pass(d, tgt, memory_bank, st, memory_lengths))

(* ------------------------------ encoders ------------------------------- *)
\* Encoders work on shapes here: a tensor is its <<time, batch, width>>.

\* _check_args, had it let every lengths vector through
_check_args_unchecked(input, lengths) == TRUE

\* EncoderBase._check_args: whether the check passes
_check_args(input, lengths) ==
    lengths = None \/ aeq(input[2], Len(lengths))

RECURSIVE MaxOf(_)
MaxOf(s) == IF Len(s) = 1 THEN s[1] ELSE Max(Head(s), MaxOf(Tail(s)))

\* pack_padded_sequence accepts lengths: one per batch row, each within the
\* padded time, in decreasing order
pack_ok(input, lengths) ==
    /\ Len(lengths) = input[2]
    /\ \A b \in 1..Len(lengths) : lengths[b] >= 1 /\ lengths[b] <= input[1]
    /\ \A b \in 1..(Len(lengths) - 1) : lengths[b] >= lengths[b + 1]

\* the time length pad_packed_sequence gives back: that of the longest row
unpack_time(lengths) == MaxOf(lengths)

EncFailed(why, calls) ==
    [ok |-> FALSE, why |-> why, calls |-> calls,
     encoder_final |-> None, memory_bank |-> None]

EncDirections(e) == IF e.bidirectional THEN 2 ELSE 1

\* the final state of a recurrent cell over a batch: a pair for an LSTM
rnn_final(e, layers, batch) ==
    LET h == <<layers * EncDirections(e), batch,
               e.hidden_size \div EncDirections(e)>>
    IN  IF e.rnn_type = "LSTM" THEN <<h, h>> ELSE <<h>>

MeanEncoder_forward(e, src, lengths) ==
    IF ~_check_args(src, lengths) THEN EncFailed("aeq lengths", <<>>)
    ELSE LET emb == <<src[1], src[2], e.embedding_size>>
             mean == <<e.num_layers, src[2], e.embedding_size>>
         IN  [ok |-> TRUE, why |-> "", calls |-> <<"embeddings">>,
              encoder_final |-> <<mean, mean>>, memory_bank |-> emb]

RNNEncoder_forward(e, src, lengths) ==
    IF ~_check_args(src, lengths) THEN EncFailed("aeq lengths", <<>>)
    ELSE LET emb == <<src[1], src[2], e.embedding_size>>
             packing == lengths # None /\ e.rnn_type # "SRU"
         IN  IF packing /\ ~pack_ok(emb, lengths)
             THEN EncFailed("pack", <<"embeddings">>)
             ELSE [ok |-> TRUE, why |-> "", calls |-> <<"embeddings", "rnn">>,
                   encoder_final |-> rnn_final(e, e.num_layers, src[2]),
                   memory_bank |->
                       <<IF packing THEN unpack_time(lengths) ELSE src[1],
                         src[2],
                         EncDirections(e) * (e.hidden_size \div EncDirections(e))>>]

\* torch.sort(ans_lengths, descending=True): the sorted lengths
RECURSIVE sort_desc(_)
sort_desc(s) ==
    IF s = <<>> THEN <<>>
    ELSE LET m == MaxOf(s)
             i == CHOOSE i \in 1..Len(s) : s[i] = m
         IN  <<m>> \o sort_desc(SubSeq(s, 1, i - 1) \o SubSeq(s, i + 1, Len(s)))

BiAttEncoder_forward(e, src_input, ans_input, lengths) ==
    LET src_lengths == lengths[1]
        ans_lengths == lengths[2]
        hidden_size == e.hidden_size \div 2
    IN  IF ~_check_args(src_input, src_lengths)
        THEN EncFailed("aeq src lengths", <<>>)
        ELSE IF ~_check_args(ans_input, ans_lengths)
        THEN EncFailed("aeq ans lengths", <<>>)
        ELSE LET src_emb == <<src_input[1], src_input[2], e.embedding_size>>
                 ans_emb == <<ans_input[1], ans_input[2], e.embedding_size>>
                 embedded == <<"embeddings", "embeddings">>
             IN  IF ans_lengths = None
                 THEN EncFailed("sort", embedded)
                 ELSE IF src_lengths # None /\ ~pack_ok(src_emb, src_lengths)
                 THEN EncFailed("pack src", embedded)
                 ELSE IF ~pack_ok(ans_emb, sort_desc(ans_lengths))
                 THEN EncFailed("pack ans", embedded \o <<"rnn">>)
                 ELSE IF src_lengths = None
                 THEN EncFailed("sequence_mask", embedded \o <<"rnn", "rnn">>)
                 ELSE IF src_input[2] # ans_input[2]
                 THEN EncFailed("bmm batch", embedded \o <<"rnn", "rnn">>)
                 ELSE IF e.rnn_type = "LSTM"
                 THEN EncFailed("cat of tuples", embedded \o <<"rnn", "rnn">>)
                 ELSE [ok |-> TRUE, why |-> "",
                       calls |-> embedded \o <<"rnn", "rnn">>,
                       encoder_final |-> <<<<EncDirections(e), src_input[2],
                                             hidden_size>>>>,
                       memory_bank |->
                           <<unpack_time(src_lengths) + unpack_time(ans_lengths),
                             src_input[2], 2 * hidden_size>>]

(* ------------------------ bi-attention matching ------------------------ *)
\* The values inside one layer of BiAttEncoder.forward.

\* self.embeddings on a stream of shape <<time, batch, nfeat>>: every step of
\* every row gets its own number
embedded(shape, width, stream) ==
    [t \in 1..shape[1] |->
        [r \in 1..shape[2] |-> [k \in 1..width |-> 100 * stream + 10 * r + t]]]

Perms(n) ==
    {p \in [1..n -> 0..(n - 1)] : \A i, j \in 1..n : i # j => p[i] # p[j]}

\* torch.sort(lengths, dim=0, descending=True)[1]: the indices that sort
\* lengths, equal lengths in any order
idx_sorts(lengths) ==
    {p \in Perms(Len(lengths)) :
        \A i \in 1..(Len(lengths) - 1) :
            lengths[p[i] + 1] >= lengths[p[i + 1] + 1]}

\* the sorting indices taken again as the unsorting ones
argsort_same(p) == p

\* torch.sort(p, dim=0)[1]: the indices that sort p in increasing order
argsort(p) ==
    [k \in 1..Len(p) |->
        (CHOOSE j \in 1..Len(p) :
            Cardinality({i \in 1..Len(p) : p[i] < p[j]}) = k - 1) - 1]

\* x[a][r][1] + ... + x[b][r][1]
RECURSIVE span(_, _, _, _)
span(x, r, a, b) == IF a > b THEN 0 ELSE x[a][r][1] + span(x, r, a + 1, b)

\* pack, the bidirectional cell of one layer, unpack: row r of x is read up
\* to lengths[r]; the output is padded with zeros to the longest length
birnn(e, x, lengths) ==
    LET h == e.hidden_size \div 2
        hn == << [r \in 1..Len(lengths) |->
                    [k \in 1..h |-> span(x, r, 1, lengths[r])]],
                 [r \in 1..Len(lengths) |->
                    [k \in 1..h |-> 2 * span(x, r, 1, lengths[r])]] >>
        cn == [d \in 1..2 |-> [r \in 1..Len(lengths) |->
                    [k \in 1..h |-> hn[d][r][k] + 1]]]
    IN  [output |->
            [t \in 1..unpack_time(lengths) |->
                [r \in 1..Len(lengths) |->
                    IF t <= lengths[r]
                    THEN [k \in 1..h |-> span(x, r, 1, t)]
                           \o [k \in 1..h |-> span(x, r, t, lengths[r])]
                    ELSE [k \in 1..(2 * h) |-> 0]]],
         hidden |-> IF e.rnn_type = "LSTM" THEN <<hn, cn>> ELSE <<hn>>]

\* onmt.Utils.sequence_mask(lengths): [batch, max(lengths)]
sequence_mask(lengths) ==
    [b \in 1..Len(lengths) |-> [j \in 1..MaxOf(lengths) |-> j <= lengths[b]]]

dot(a, b) == Sum([k \in 1..Len(a) |-> a[k] * b[k]])

\* a.bmm(b.transpose(2, 1)) of the batch-first views of two [time, batch,
\* width] sequences: [batch, time of a, time of b]
bmm(a, b) ==
    [r \in 1..Len(a[1]) |->
        [i \in 1..Len(a) |-> [j \in 1..Len(b) |-> dot(a[i][r], b[j][r])]]]

\* the scores with nothing filled in
masked_fill_nothing(scores, mask) ==
    [v |-> scores,
     keep |-> [r \in 1..Len(scores) |-> [i \in 1..Len(scores[r]) |->
                 [j \in 1..Len(scores[r][i]) |-> TRUE]]]]

\* scores.data.masked_fill_((1 - mask.unsqueeze(1).expand(scores.size())),
\* -inf): the scores, and where they are still finite
masked_fill_(scores, mask) ==
    [v |-> scores,
     keep |-> [r \in 1..Len(scores) |-> [i \in 1..Len(scores[r]) |->
                 [j \in 1..Len(scores[r][i]) |-> mask[r][j]]]]]

\* F.softmax(scores, dim=2): each row a distribution (its weights sum to
\* Unit), exactly zero where the score is -inf, largest at the largest score
softmax(filled) ==
    [r \in 1..Len(filled.v) |-> [i \in 1..Len(filled.v[r]) |->
        LET row == filled.v[r][i]
            keep == filled.keep[r][i]
            n == Cardinality({j \in 1..Len(row) : keep[j]})
            peak == CHOOSE j \in 1..Len(row) :
                        /\ keep[j]
                        /\ \A u \in 1..Len(row) :
                              keep[u] => \/ row[j] > row[u]
                                         \/ (row[j] = row[u] /\ j <= u)
        IN  [j \in 1..Len(row) |->
                IF ~keep[j] THEN 0
                ELSE IF j = peak THEN Unit(Len(row)) - (n - 1) ELSE 1]]]

\* ans_match up to the two attention distributions
ans_match(src_seq, ans_seq, src_lengths, ans_lengths) ==
    LET BF_ans_mask == sequence_mask(ans_lengths)
        BF_src_mask == sequence_mask(src_lengths)
        src_scores == bmm(src_seq, ans_seq)
        ans_scores == bmm(ans_seq, src_seq)
    IN  [src_alpha |-> softmax(masked_fill_(src_scores, BF_ans_mask)),
         ans_alpha |-> softmax(masked_fill_(ans_scores, BF_src_mask))]

\* the layer of BiAttEncoder.forward, for the sorting indices torch.sort gave
BiAtt_layer(e, src_input, ans_input, lengths, idx_sort) ==
    LET src_lengths == lengths[1]
        ans_lengths == lengths[2]
        src_emb == embedded(src_input, e.embedding_size, 1)
        ans_emb == embedded(ans_input, e.embedding_size, 2)
        sorted_ans_lengths == sort_desc(ans_lengths)
        idx_unsort == argsort(idx_sort)
        src_run == birnn(e, src_emb, src_lengths)
        ans_run == birnn(e, index_select(ans_emb, idx_sort), sorted_ans_lengths)
        ans_outputs == index_select(ans_run.output, idx_unsort)
        ans_hidden == [c \in 1..Len(ans_run.hidden) |->
                          index_select(ans_run.hidden[c], idx_unsort)]
        match == ans_match(src_run.output, ans_outputs, src_lengths, ans_lengths)
    IN  [idx_sort |-> idx_sort,
         idx_unsort |-> idx_unsort,
         src_outputs |-> src_run.output,
         src_hidden |-> src_run.hidden,
         ans_outputs |-> ans_outputs,
         ans_hidden |-> ans_hidden,
         src_alpha |-> match.src_alpha,
         ans_alpha |-> match.ans_alpha]

(* ---------------------------- orchestrators ---------------------------- *)
\* the tensor an encoder leaves in a given <<time, batch, width>> shape: the
\* decoder reads its numbers, which stand for whatever the encoder computed
tensor(shape) ==
    [l \in 1..shape[1] |-> [r \in 1..shape[2] |-> [k \in 1..shape[3] |-> l + r]]]

\* self.encoder(src, lengths)
encoder(e, src, lengths) ==
    IF e.kind = "Mean" THEN MeanEncoder_forward(e, src, lengths)
    ELSE RNNEncoder_forward(e, src, lengths)

\* word_memory.forward: one vector of the memory bank's width per batch row
cal_word_memory(src, width) ==
    [r \in 1..src[2] |-> [k \in 1..width |-> r]]

\* torch.add(memory_bank, o): o is added at every time position
add_memory(memory_bank, o) ==
    [j \in 1..Len(memory_bank) |->
        [r \in 1..Len(memory_bank[j]) |->
            [k \in 1..Len(memory_bank[j][r]) |-> memory_bank[j][r][k] + o[r][k]]]]

\* tgt[:], the whole target
keep_all(tgt) == tgt

\* tgt[:-1]
drop_last(tgt) == SubSeq(tgt, 1, Len(tgt) - 1)

\* lengths[0] + lengths[1]
add_lengths(a, b) == [r \in 1..Len(a) |-> a[r] + b[r]]

ModelFailed(why, encoded) ==
    [ok |-> FALSE, why |-> why, encoder |-> encoded, state |-> NoState]

\* a forward that hands back the state and the attention whatever multigpu is
model_decode_keeping(m, tgt, encoded, augment, lengths, dec_state) ==
    LET plain == tensor(encoded.memory_bank)
        memory_bank == IF augment
                       THEN add_memory(plain,
                                cal_word_memory(encoded.memory_bank,
                                                encoded.memory_bank[3]))
                       ELSE plain
        enc_final == [c \in 1..Len(encoded.encoder_final) |->
                         tensor(encoded.encoder_final[c])]
        enc_state == init_decoder_state(m.decoder, enc_final)
        run == forward(m.decoder, tgt, memory_bank,
                       IF dec_state = None THEN enc_state ELSE dec_state,
                       lengths)
    IN  IF ~run.ok THEN ModelFailed(run.why, encoded)
        ELSE [ok |-> TRUE, why |-> "", encoder |-> encoded,
              state |-> run.state,
              tgt |-> tgt,
              memory_bank |-> memory_bank,
              decoder_outputs |-> run.decoder_outputs,
              attns |-> run.attns,
              dec_state |-> run.state]

\* the orchestrators from the encoder's result on: state initialisation, the
\* decoder call and the returned triple
model_decode(m, tgt, encoded, augment, lengths, dec_state) ==
    LET plain == tensor(encoded.memory_bank)
        memory_bank == IF augment
                       THEN add_memory(plain,
                                cal_word_memory(encoded.memory_bank,
                                                encoded.memory_bank[3]))
                       ELSE plain
        enc_final == [c \in 1..Len(encoded.encoder_final) |->
                         tensor(encoded.encoder_final[c])]
        enc_state == init_decoder_state(m.decoder, enc_final)
        run == forward(m.decoder, tgt, memory_bank,
                       IF dec_state = None THEN enc_state ELSE dec_state,
                       lengths)
    IN  IF ~run.ok THEN ModelFailed(run.why, encoded)
        ELSE [ok |-> TRUE, why |-> "", encoder |-> encoded,
              state |-> run.state,
              tgt |-> tgt,
              memory_bank |-> memory_bank,
              decoder_outputs |-> run.decoder_outputs,
              attns |-> IF m.multigpu THEN None ELSE run.attns,
              dec_state |-> IF m.multigpu THEN None ELSE run.state]

NMTModel_forward(m, src, tgt, lengths, dec_state) ==
    LET encoded == encoder(m.encoder, src, lengths)
    IN  IF ~encoded.ok THEN ModelFailed(encoded.why, encoded)
        ELSE model_decode(m, drop_last(tgt), encoded, FALSE, lengths, dec_state)

TwoEncoderModel_forward(m, src, conversation, tgt, lengths, dec_state) ==
    LET concat == <<src[1] + conversation[1], src[2], src[3]>>
        concat_lengths == add_lengths(lengths[1], lengths[2])
        encoded == encoder(m.encoder, concat, concat_lengths)
    IN  IF ~encoded.ok THEN ModelFailed(encoded.why, encoded)
        ELSE model_decode(m, drop_last(tgt), encoded, m.all_docs,
                          concat_lengths, dec_state)

(* ------------------------------ inputs --------------------------------- *)
Directions(d) == IF d.bidirectional_encoder THEN 2 ELSE 1

Channels(d) == IF d.rnn_type = "LSTM" THEN 2 ELSE 1

\* the final state of an encoder built for decoder d, over a batch of B:
\* every number differs from every other
EncoderFinal(d, B) ==
    [c \in 1..Channels(d) |->
        [l \in 1..(Directions(d) * d.num_layers) |->
            [r \in 1..B |->
                [k \in 1..(d.hidden_size \div Directions(d)) |->
                    1000 * c + 100 * l + 10 * r + k]]]]

Decoders ==
    { d \in [kind : {"std", "inputfeed"},
             rnn_type : {"LSTM", "GRU"},
             bidirectional_encoder : BOOLEAN,
             num_layers : {MaxLayers},
             hidden_size : 1..(2 * MaxDim),
             coverage : BOOLEAN,
             copy : BOOLEAN,
             reuse_copy_attn : BOOLEAN] :
        /\ d.hidden_size \in {Directions(d) * dim : dim \in 1..MaxDim}
        /\ (d.reuse_copy_attn => d.copy) }

\* a batch size that agrees with n and one that does not
Batches(n) == {n, (n % MaxRows) + 1}

Positions(beam_size) == [1..beam_size -> 0..(beam_size - 1)]

Rows(st) == Len(st.input_feed[1])

\* a target batch [tgt_len, batch, 1] of token ids
Target(tgt_len, batch) ==
    [t \in 1..tgt_len |-> [r \in 1..batch |-> <<t + r>>]]

\* an encoder memory bank [src_len, batch, hidden]
MemoryBank(src_len, batch, hidden_size) ==
    [j \in 1..src_len |-> [r \in 1..batch |-> [k \in 1..hidden_size |-> j + r]]]

\* the source lengths of a batch padded to src_len: rows of every length
MemoryLengths(src_len, batch) ==
    {None, [r \in 1..batch |-> src_len - ((r - 1) % src_len)]}


(* ------------------------------ actions -------------------------------- *)
NoRet == [op |-> "none"]

NoEnc == [op |-> "none"]

NoDecoder == [kind |-> "none"]

Init ==
    /\ dec \in Decoders
    /\ state = NoState
    /\ ret = NoRet
    /\ nsteps = 0
    /\ enc = NoEnc

Constructed == state.hidden # <<>>

InitDecoderState ==
    /\ ~Constructed
    /\ \E B \in 1..MaxBatch :
       \E encoder_final \in {EncoderFinal(dec, B)} :
          /\ state' = init_decoder_state(dec, encoder_final)
          /\ ret' = [op |-> "init_decoder_state",
                     encoder_final |-> encoder_final]
    /\ UNCHANGED <<dec, nsteps, enc>>

RepeatBeamSizeTimes ==
    /\ Constructed
    /\ \E k \in 1..MaxBeam :
          /\ k * Rows(state) <= MaxRows
          /\ state' = repeat_beam_size_times(state, k)
          /\ ret' = [op |-> "repeat_beam_size_times", beam_size |-> k]
    /\ UNCHANGED <<dec, nsteps, enc>>

BeamUpdate ==
    /\ Constructed
    /\ nsteps < MaxSteps
    /\ \E beam_size \in 1..MaxBeam :
          /\ Rows(state) % beam_size = 0
          /\ \E idx \in 0..((Rows(state) \div beam_size) - 1),
                positions \in Positions(beam_size) :
                /\ state' = beam_update(state, idx, positions, beam_size)
                /\ ret' = [op |-> "beam_update", idx |-> idx,
                           positions |-> positions, beam_size |-> beam_size]
    /\ nsteps' = nsteps + 1
    /\ UNCHANGED <<dec, enc>>

\* detach_() cuts the tensors from the computation history; the numbers stay
Detach ==
    /\ Constructed
    /\ state' = state
    /\ ret' = [op |-> "detach"]
    /\ UNCHANGED <<dec, nsteps, enc>>

\* a forward call of decoder d on state st: the state it leaves and the
\* record of the call
ForwardCall(d, st, tgt_len, tgt_batch, memory_batch, memory_lengths) ==
    LET tgt == Target(tgt_len, tgt_batch)
        memory_bank == MemoryBank(MaxSrcLen, memory_batch, d.hidden_size)
        out == forward(d, tgt, memory_bank, st, memory_lengths)
    IN  [state |-> out.state,
         ret |-> [op |-> "forward",
                  tgt_batch |-> tgt_batch,
                  memory_batch |-> memory_batch,
                  input_feed_batch |-> Rows(st),
                  coverage_in |-> st.coverage]
                    @@ [f \in DOMAIN out \ {"state"} |-> out[f]]]

Forward ==
    /\ Constructed
    /\ nsteps < MaxSteps
    /\ \E tgt_len \in 1..MaxTgtLen, tgt_batch \in Batches(Rows(state)) :
          \E memory_batch \in Batches(tgt_batch) :
          \E memory_lengths \in MemoryLengths(MaxSrcLen, memory_batch) :
          \E call \in {ForwardCall(dec, state, tgt_len, tgt_batch,
                                   memory_batch, memory_lengths)} :
             /\ state' = call.state
             /\ ret' = call.ret
    /\ nsteps' = nsteps + 1
    /\ UNCHANGED <<dec, enc>>

Next ==
    \/ InitDecoderState
    \/ Forward
    \/ RepeatBeamSizeTimes
    \/ BeamUpdate
    \/ Detach

Spec == Init /\ [][Next]_vars

(* --------------------------- encoder calls ------------------------------ *)
Encoders ==
    [kind : {"Mean", "RNN"},
     rnn_type : {"LSTM", "GRU", "SRU"},
     bidirectional : BOOLEAN,
     num_layers : 1..MaxLayers,
     hidden_size : {2 * MaxDim},
     embedding_size : 1..MaxDim]

BiAttEncoders ==
    [kind : {"BiAtt"},
     rnn_type : {"LSTM", "GRU"},
     bidirectional : {TRUE},
     num_layers : {2},
     hidden_size : {2 * MaxDim},
     embedding_size : 1..MaxDim]

\* <<time, batch, nfeat>> of a padded batch of token ids
Sources == {<<s_len, n_batch, 1>> : s_len \in 1..MaxSrcLen, n_batch \in 1..MaxBatch}

\* the length vectors over at most MaxBatch + 1 rows
Lengths(s_len) ==
    UNION {[1..n -> 1..s_len] : n \in 1..(MaxBatch + 1)}

InitEnc ==
    /\ dec = NoDecoder
    /\ state = NoState
    /\ ret = NoRet
    /\ nsteps = 0
    /\ enc = NoEnc

\* an encoder keeps nothing between calls: one call is followed per behaviour
EncoderForward ==
    /\ enc = NoEnc
    /\ \E e \in Encoders, src \in Sources :
       \E lengths \in Lengths(src[1]) \cup {None} :
       \E out \in {IF e.kind = "Mean" THEN MeanEncoder_forward(e, src, lengths)
                   ELSE RNNEncoder_forward(e, src, lengths)} :
          enc' = [op |-> e.kind, src |-> src, lengths |-> lengths,
                  ok |-> out.ok, why |-> out.why, calls |-> out.calls,
                  encoder_final |-> out.encoder_final,
                  memory_bank |-> out.memory_bank]
    /\ UNCHANGED <<dec, state, ret, nsteps>>

BiAttEncoderForward ==
    /\ enc = NoEnc
    /\ \E e \in BiAttEncoders, src \in Sources, ans \in Sources :
       \E src_lengths \in Lengths(src[1]) \cup {None},
          ans_lengths \in Lengths(ans[1]) \cup {None} :
       \E out \in {BiAttEncoder_forward(e, src, ans,
                                        <<src_lengths, ans_lengths>>)} :
          enc' = [op |-> e.kind, src |-> src, ans |-> ans,
                  lengths |-> <<src_lengths, ans_lengths>>,
                  ok |-> out.ok, why |-> out.why, calls |-> out.calls,
                  encoder_final |-> out.encoder_final,
                  memory_bank |-> out.memory_bank]
    /\ UNCHANGED <<dec, state, ret, nsteps>>

NextEnc ==
    \/ EncoderForward
    \/ BiAttEncoderForward

SpecEnc == InitEnc /\ [][NextEnc]_vars

(* ------------------------- orchestrator calls --------------------------- *)
\* the encoders that fit decoder d: as many layers and directions, the same
\* cell and width; a mean encoder's final state is a pair of its embedding's
\* width, which fits a unidirectional LSTM decoder
EncodersFor(d) ==
    {e \in [kind : {"Mean", "RNN"},
            rnn_type : {d.rnn_type},
            bidirectional : {d.bidirectional_encoder},
            num_layers : {d.num_layers},
            hidden_size : {d.hidden_size},
            embedding_size : {d.hidden_size}] :
        e.kind = "Mean" => (d.rnn_type = "LSTM" /\ ~d.bidirectional_encoder)}

Models(d) ==
    [encoder : EncodersFor(d), decoder : {d}, multigpu : BOOLEAN,
     all_docs : BOOLEAN]

\* the length vectors of a batch padded to s_len
BatchLengths(s_len, batch) == [1..batch -> 1..s_len]

\* a target of T steps: the decoder is fed T - 1 of them
TargetLens == 2..(MaxTgtLen + 1)

InitModel ==
    /\ dec \in Decoders
    /\ state = NoState
    /\ ret = NoRet
    /\ nsteps = 0
    /\ enc = NoEnc

ModelCall(op, src, conversation, tgt_len, lengths, out) ==
    [op |-> op, src |-> src, conversation |-> conversation,
     tgt_len |-> tgt_len, lengths |-> lengths]
       @@ [f \in DOMAIN out \ {"state", "encoder"} |-> out[f]]

EncoderCall(e, out) ==
    [op |-> e.kind, ok |-> out.ok, why |-> out.why, calls |-> out.calls,
     encoder_final |-> out.encoder_final, memory_bank |-> out.memory_bank]

NMTModelForward ==
    /\ ret = NoRet
    /\ \E m \in {m \in Models(dec) : ~m.all_docs}, src \in Sources,
          tgt_len \in TargetLens :
       \E lengths \in BatchLengths(src[1], src[2]), tgt_batch \in Batches(src[2]) :
       \E out \in {NMTModel_forward(m, src, Target(tgt_len, tgt_batch),
                                    lengths, None)} :
          /\ ret' = [multigpu |-> m.multigpu, encoder |-> m.encoder.kind,
                     all_docs |-> m.all_docs]
                      @@ ModelCall("NMTModel", src, None, tgt_len, lengths, out)
          /\ state' = out.state
          /\ enc' = EncoderCall(m.encoder, out.encoder)
    /\ UNCHANGED <<dec, nsteps>>

TwoEncoderModelForward ==
    /\ ret = NoRet
    /\ \E m \in Models(dec), src \in Sources, tgt_len \in TargetLens :
       \E conv_len \in 1..MaxSrcLen :
       \E src_lengths \in BatchLengths(src[1], src[2]),
          conv_lengths \in BatchLengths(conv_len, src[2]) :
       \E lengths \in {<<src_lengths, conv_lengths>>} :
       \E out \in {TwoEncoderModel_forward(m, src, <<conv_len, src[2], src[3]>>,
                                           Target(tgt_len, src[2]),
                                           lengths, None)} :
          /\ ret' = [multigpu |-> m.multigpu, encoder |-> m.encoder.kind,
                     all_docs |-> m.all_docs]
                      @@ ModelCall("TwoEncoderModel", src,
                                   <<conv_len, src[2], src[3]>>, tgt_len,
                                   lengths, out)
          /\ state' = out.state
          /\ enc' = EncoderCall(m.encoder, out.encoder)
    /\ UNCHANGED <<dec, nsteps>>

NextModel ==
    \/ NMTModelForward
    \/ TwoEncoderModelForward

SpecModel == InitModel /\ [][NextModel]_vars

(* ------------------------ bi-attention calls ---------------------------- *)
\* the length vectors pack accepts for a batch padded to s_len
SortedLengths(s_len, batch) ==
    {l \in BatchLengths(s_len, batch) :
        \A b \in 1..(batch - 1) : l[b] >= l[b + 1]}

\* BiAttEncoder.forward on a pair of streams over one batch, the source
\* lengths in the order pack asks for: the values of its layer and what it
\* returns
BiAttEncoderMatch ==
    /\ enc = NoEnc
    /\ \E e \in BiAttEncoders, batch \in 1..MaxMatchBatch :
       \E src_len \in 1..MaxSrcLen, ans_len \in 1..MaxSrcLen :
       \E src_lengths \in SortedLengths(src_len, batch),
          ans_lengths \in BatchLengths(ans_len, batch) :
       \E idx_sort \in idx_sorts(ans_lengths) :
       \E src \in {<<src_len, batch, 1>>}, ans \in {<<ans_len, batch, 1>>} :
       \E layer \in {BiAtt_layer(e, src, ans, <<src_lengths, ans_lengths>>,
                                 idx_sort)},
          out \in {BiAttEncoder_forward(e, src, ans,
                                        <<src_lengths, ans_lengths>>)} :
          enc' = [op |-> "BiAttMatch", rnn_type |-> e.rnn_type,
                  src |-> src, ans |-> ans,
                  lengths |-> <<src_lengths, ans_lengths>>,
                  ans_emb |-> embedded(ans, e.embedding_size, 2),
                  ok |-> out.ok, why |-> out.why, calls |-> out.calls,
                  encoder_final |-> out.encoder_final,
                  memory_bank |-> out.memory_bank] @@ layer
    /\ UNCHANGED <<dec, state, ret, nsteps>>

NextMatch == BiAttEncoderMatch

SpecMatch == InitEnc /\ [][NextMatch]_vars

(* ======================= properties of the decoder state ================ *)
Identity(beam_size) == [i \in 1..beam_size |-> i - 1]

\* the row of tensor e that holds beam slot s (from 0) of sentence idx
SlotRow(e, s, idx, beam_size) == s * (Len(e[1]) \div beam_size) + idx + 1

\* e with, for sentence idx, every beam slot i holding what slot positions[i]
\* held in e, and every other row as in e
Selected(e, idx, positions, beam_size) ==
    [l \in 1..Len(e) |->
        [r \in 1..Len(e[l]) |->
            IF \E i \in 0..(beam_size - 1) : r = SlotRow(e, i, idx, beam_size)
            THEN LET i == CHOOSE i \in 0..(beam_size - 1) :
                              r = SlotRow(e, i, idx, beam_size)
                 IN  e[l][SlotRow(e, positions[i + 1], idx, beam_size)]
            ELSE e[l][r]]]

\* the selection can be applied to e at all
Selectable(e, idx, beam_size) ==
    /\ Len(e[1]) % beam_size = 0
    /\ idx < Len(e[1]) \div beam_size

\* every tensor a state holds
Held(st) ==
    st.hidden \o <<st.input_feed>>
      \o (IF st.coverage # None THEN <<st.coverage>> ELSE <<>>)

\* C1: beam_update reorders every tensor the state holds consistently: after
\* the call each hidden tensor, input_feed and (when it is not None) coverage
\* is the same row selection of what it was before the call
C1_BeamUpdateReordersEveryHeldTensor ==
    [][ret'.op = "beam_update" =>
         /\ Len(Held(state')) = Len(Held(state))
         /\ \A n \in 1..Len(Held(state)) :
               /\ Selectable(Held(state)[n], ret'.idx, ret'.beam_size)
               /\ Held(state')[n] = Selected(Held(state)[n], ret'.idx,
                                             ret'.positions, ret'.beam_size)]_vars

\* C2: beam_update with the identity permutation leaves the values of every
\* state tensor unchanged
C2_IdentityReorderChangesNothing ==
    [][(ret'.op = "beam_update" /\ ret'.positions = Identity(ret'.beam_size))
         => state' = state]_vars

\* an identity reorder over at least two beam slots of two sentences has
\* acted on a state whose rows differ
C2_Witness ==
    /\ ret.op = "beam_update"
    /\ ret.beam_size >= 2
    /\ ret.positions = Identity(ret.beam_size)
    /\ Rows(state) >= 2 * ret.beam_size
    /\ \A r1, r2 \in 1..Rows(state) :
          r1 # r2 => state.hidden[1][1][r1] # state.hidden[1][1][r2]

\* C3: for sentence idx, beam_update overwrites beam slot i of each state
\* tensor with the value slot positions[i] held before the call, for every
\* slot i, also when positions repeats a slot
C3_SlotsTakeTheirSourceSlot ==
    [][ret'.op = "beam_update" =>
         \A n \in 1..Len(Held(state)) :
            /\ Selectable(Held(state)[n], ret'.idx, ret'.beam_size)
            /\ \A l \in 1..Len(Held(state)[n]), i \in 0..(ret'.beam_size - 1) :
                  Held(state')[n][l][SlotRow(Held(state)[n], i, ret'.idx,
                                            ret'.beam_size)]
                    = Held(state)[n][l][SlotRow(Held(state)[n],
                                               ret'.positions[i + 1], ret'.idx,
                                               ret'.beam_size)]]_vars

\* the same, of the tensors beam_update iterates over (hidden and input_feed)
C3_SlotsTakeTheirSourceSlotOfAll ==
    [][ret'.op = "beam_update" =>
         \A n \in 1..Len(_all(state)) :
            \A l \in 1..Len(_all(state)[n]), i \in 0..(ret'.beam_size - 1) :
               _all(state')[n][l][SlotRow(_all(state)[n], i, ret'.idx,
                                         ret'.beam_size)]
                 = _all(state)[n][l][SlotRow(_all(state)[n],
                                            ret'.positions[i + 1], ret'.idx,
                                            ret'.beam_size)]]_vars

\* C4: in every state reachable from construction, all tensors the decoder
\* state holds have the same size at axis 1
C4_BatchAxisAgrees ==
    Constructed =>
        \A n \in 1..Len(Held(state)) : Len(Held(state)[n][1]) = Rows(state)

\* C5: init_decoder_state with a bidirectional encoder turns each channel's
\* 2*L slices into L layers of doubled width, layer i being slices 2i and
\* 2i+1 side by side; with a unidirectional encoder the final state is used
\* unchanged
C5_BidirectionalSlicesArePaired ==
    ret.op = "init_decoder_state" =>
        /\ Len(state.hidden) = Len(ret.encoder_final)
        /\ \A c \in 1..Len(ret.encoder_final) :
              LET h == ret.encoder_final[c]
              IN  IF dec.bidirectional_encoder
                  THEN /\ 2 * Len(state.hidden[c]) = Len(h)
                       /\ \A i \in 0..(Len(state.hidden[c]) - 1), r \in 1..Len(h[1]) :
                             /\ state.hidden[c][i + 1][r]
                                  = h[2 * i + 1][r] \o h[2 * i + 2][r]
                             /\ Len(state.hidden[c][i + 1][r]) = 2 * Len(h[1][r])
                  ELSE state.hidden[c] = h

\* a state has been built from a bidirectional final state of two layers
C5_Witness ==
    /\ ret.op = "init_decoder_state"
    /\ dec.bidirectional_encoder
    /\ Len(ret.encoder_final) = 2
    /\ Len(ret.encoder_final[1]) >= 4
    /\ Len(state.hidden[1]) >= 2

RECURSIVE SumTo(_, _, _, _)
SumTo(s, k, r, j) == IF k = 0 THEN 0 ELSE s[k][r][j] + SumTo(s, k - 1, r, j)

\* C7: the k-th entry of the coverage bundle of an input-feeding decoder is
\* the coverage carried in by the state (nothing, when that is None) plus
\* the sum of the attention distributions of steps 1..k of the call
C7_CoverageIsCarriedPlusAttention ==
    (ret.op = "forward" /\ ret.ok /\ dec.kind = "inputfeed" /\ dec.coverage) =>
        /\ Len(ret.attns["coverage"]) = Len(ret.attns["std"])
        /\ \A k \in 1..Len(ret.attns["std"]) :
           \A r \in 1..Len(ret.attns["std"][k]) :
           \A j \in 1..Len(ret.attns["std"][k][r]) :
              ret.attns["coverage"][k][r][j]
                = SumTo(ret.attns["std"], k, r, j)
                  + (IF ret.coverage_in = None THEN 0
                     ELSE ret.coverage_in[1]
                            [IF Len(ret.coverage_in[1]) = 1 THEN 1 ELSE r][j])

\* a call of two steps has added to a coverage the state carried in
C7_Witness ==
    /\ ret.op = "forward"
    /\ ret.ok
    /\ dec.kind = "inputfeed"
    /\ dec.coverage
    /\ ret.coverage_in # None
    /\ Len(ret.attns["coverage"]) = 2

\* C8: a forward call whose target batch differs from the memory bank's (or,
\* for the input-feeding decoder, from the state's input_feed's) fails at
\* that check, and a failed call leaves the state as it was
C8_MismatchFailsAndFailureIsAtomic ==
    [][ret'.op = "forward" =>
         /\ (ret'.tgt_batch # ret'.memory_batch
               => (~ret'.ok /\ ret'.why = "aeq memory" /\ ret'.calls = <<>>))
         /\ (ret'.tgt_batch = ret'.memory_batch /\ dec.kind = "inputfeed"
               /\ ret'.tgt_batch # Len(state.input_feed[1])
               => (~ret'.ok /\ ret'.why = "aeq input_feed" /\ ret'.calls = <<>>))
         /\ (~ret'.ok => state' = state)]_vars

\* a call has failed on a state that an earlier call had updated
C8_Witness ==
    /\ ret.op = "forward"
    /\ ~ret.ok
    /\ ret.tgt_batch # ret.memory_batch
    /\ nsteps = 2
    /\ state.input_feed # zeros(Rows(state), dec.hidden_size)

\* C10: a batched-standard decoder built with coverage or copy fails a
\* precondition on every forward call, before any attention is computed and
\* without updating the state, and no batched-standard decoder returns a
\* "coverage" or "copy" entry
C10_StdRejectsCoverageAndCopy ==
    [][(ret'.op = "forward" /\ dec.kind = "std") =>
         /\ (dec.coverage \/ dec.copy) =>
               /\ ~ret'.ok
               /\ ret'.why \in {"aeq memory", "assert not copy",
                                "assert not coverage"}
               /\ ret'.calls = <<>>
               /\ state' = state
         /\ ret'.ok => DOMAIN ret'.attns = {"std"}]_vars

\* a batched-standard decoder built with coverage has been called with
\* agreeing batch sizes
C10_Witness ==
    /\ ret.op = "forward"
    /\ dec.kind = "std"
    /\ dec.coverage
    /\ ~dec.copy
    /\ ret.tgt_batch = ret.memory_batch
    /\ ret.tgt_batch = ret.input_feed_batch

(* ========================= properties of encoders ======================= *)
\* a length vector supplied with the call has another batch size than its
\* sequence
LengthsMismatch ==
    IF enc.op = "BiAtt"
    THEN \/ enc.lengths[1] # None /\ Len(enc.lengths[1]) # enc.src[2]
         \/ enc.lengths[2] # None /\ Len(enc.lengths[2]) # enc.ans[2]
    ELSE enc.lengths # None /\ Len(enc.lengths) # enc.src[2]

\* C9: every encoder fails, before embedding or running any recurrent cell,
\* when a supplied length vector's batch dimension differs from its
\* sequence's, and produces no output then
C9_EncodersCheckLengthsFirst ==
    (enc.op # "none" /\ LengthsMismatch) =>
        /\ ~enc.ok
        /\ enc.calls = <<>>
        /\ enc.encoder_final = None
        /\ enc.memory_bank = None

\* the bi-attention encoder has been called with answer lengths of another
\* batch size than the answers, the source lengths agreeing
C9_Witness ==
    /\ enc.op = "BiAtt"
    /\ enc.lengths[1] # None /\ Len(enc.lengths[1]) = enc.src[2]
    /\ enc.lengths[2] # None /\ Len(enc.lengths[2]) # enc.ans[2]
    /\ ~enc.ok

(* ====================== properties of the orchestrators ================= *)
\* C11: both orchestrators feed the decoder the target without its last
\* step: for a target of T >= 2 steps the returned decoder outputs have T-1
\* steps and the "std" attention has T-1 steps, each over all positions of
\* the memory bank
C11_DecoderIsFedTargetWithoutLastStep ==
    (ret.op \in {"NMTModel", "TwoEncoderModel"} /\ ret.ok) =>
        /\ ret.tgt_len >= 2
        /\ ret.tgt = SubSeq(Target(ret.tgt_len, ret.src[2]), 1, ret.tgt_len - 1)
        /\ Len(ret.decoder_outputs) = ret.tgt_len - 1
        /\ \A t \in 1..Len(ret.decoder_outputs) :
              Len(ret.decoder_outputs[t]) = ret.src[2]
        /\ ~ret.multigpu =>
              /\ "std" \in DOMAIN ret.attns
              /\ Len(ret.attns["std"]) = ret.tgt_len - 1
              /\ \A t \in 1..Len(ret.attns["std"]) :
                    /\ Len(ret.attns["std"][t]) = ret.src[2]
                    /\ \A r \in 1..ret.src[2] :
                          Len(ret.attns["std"][t][r]) = Len(ret.memory_bank)

\* the single-encoder orchestrator has decoded a target of three steps over a
\* batch of two whose sources differ in length
C11_Witness ==
    /\ ret.op = "NMTModel"
    /\ ret.ok
    /\ ~ret.multigpu
    /\ ret.tgt_len = 3
    /\ ret.src[2] = 2
    /\ ret.lengths[1] # ret.lengths[2]
    /\ Len(ret.attns["std"]) = 2

\* C12: with multigpu set the orchestrator returns the decoder outputs with
\* None for the attention bundle and for the decoder state; with multigpu
\* unset both are returned, not None
C12_MultigpuNullsStateAndAttention ==
    (ret.op \in {"NMTModel", "TwoEncoderModel"} /\ ret.ok) =>
        /\ ret.decoder_outputs # None
        /\ IF ret.multigpu
           THEN ret.attns = None /\ ret.dec_state = None
           ELSE ret.attns # None /\ ret.dec_state # None /\ ret.dec_state = state

\* the dual-stream orchestrator has decoded with multigpu set
C12_Witness ==
    /\ ret.op = "TwoEncoderModel"
    /\ ret.ok
    /\ ret.multigpu
    /\ ret.attns = None
    /\ state # NoState

\* C13: for all valid (sequence, lengths) pairs the recurrent encoder's
\* memory bank is as long in time as the input sequence and has the input's
\* batch, whether or not the sequence was packed, also when every declared
\* length is below the padded time length
C13_MemoryBankKeepsTimeAndBatch ==
    (enc.op = "RNN" /\ enc.ok) =>
        /\ enc.memory_bank[1] = enc.src[1]
        /\ enc.memory_bank[2] = enc.src[2]

(* ===================== properties of bi-attention matching ============== *)
\* w[1] + ... + w[n]
RECURSIVE Prefix(_, _)
Prefix(w, n) == IF n = 0 THEN 0 ELSE w[n] + Prefix(w, n - 1)

\* C14: in the bi-attention matching encoder, for every batch element and
\* query position, every position of the opposite stream at or beyond that
\* stream's declared length gets exactly zero weight, in both directions,
\* and the weights over the unmasked positions of each row sum to one
C14_PaddingGetsNoAttention ==
    enc.op = "BiAttMatch" =>
        \A b \in 1..enc.src[2] :
           /\ \A i \in 1..Len(enc.src_alpha[b]) :
                 /\ \A j \in 1..Len(enc.src_alpha[b][i]) :
                       j > enc.lengths[2][b] => enc.src_alpha[b][i][j] = 0
                 /\ Prefix(enc.src_alpha[b][i], enc.lengths[2][b])
                      = Unit(Len(enc.src_alpha[b][i]))
           /\ \A j \in 1..Len(enc.ans_alpha[b]) :
                 /\ \A i \in 1..Len(enc.ans_alpha[b][j]) :
                       i > enc.lengths[1][b] => enc.ans_alpha[b][j][i] = 0
                 /\ Prefix(enc.ans_alpha[b][j], enc.lengths[1][b])
                      = Unit(Len(enc.ans_alpha[b][j]))

\* a batch has been matched in which a source row and an answer row are
\* shorter than their streams
C14_Witness ==
    /\ enc.op = "BiAttMatch"
    /\ \E b \in 1..enc.src[2] :
          /\ enc.lengths[1][b] < Len(enc.src_outputs)
          /\ enc.lengths[2][b] < Len(enc.ans_outputs)

HiddenAndFeed(st) == st.hidden \o <<st.input_feed>>

\* C16: repeat_beam_size_times(k) on a state of batch B tiles it: afterwards
\* every hidden tensor and input_feed has batch k*B and row j is the original
\* row j mod B, so that beam slot s of sentence b is row s*B + b
C16_RepeatTilesTheBatch ==
    [][ret'.op = "repeat_beam_size_times" =>
         /\ Len(HiddenAndFeed(state')) = Len(HiddenAndFeed(state))
         /\ \A n \in 1..Len(HiddenAndFeed(state)) :
               LET old == HiddenAndFeed(state)[n]
                   new == HiddenAndFeed(state')[n]
                   B == Len(old[1])
               IN  /\ Len(new) = Len(old)
                   /\ \A l \in 1..Len(old) :
                         /\ Len(new[l]) = ret'.beam_size * B
                         /\ \A j \in 0..(Len(new[l]) - 1) :
                               new[l][j + 1] = old[l][(j % B) + 1]
                         /\ \A s \in 0..(ret'.beam_size - 1), b \in 0..(B - 1) :
                               new[l][SlotRow(new, s, b, ret'.beam_size)]
                                 = old[l][b + 1]]_vars

\* a state of two different rows has been tiled twice over
C16_Witness ==
    /\ ret.op = "repeat_beam_size_times"
    /\ ret.beam_size = 2
    /\ Rows(state) = 4
    /\ state.hidden[1][1][1] # state.hidden[1][1][2]
    /\ state.hidden[1][1][1] = state.hidden[1][1][3]

\* row r of tensor e is not a beam row of sentence idx
OtherSentence(e, r, idx, beam_size) ==
    \/ Len(e[1]) \div beam_size = 0
    \/ (r - 1) % (Len(e[1]) \div beam_size) # idx

\* C17: beam_update changes only the beam rows of sentence idx: in every
\* state tensor the rows of every other sentence are unchanged, as are the
\* tensors' shapes
C17_OtherSentencesAreUntouched ==
    [][ret'.op = "beam_update" =>
         /\ Len(Held(state')) = Len(Held(state))
         /\ \A n \in 1..Len(Held(state)) :
               LET old == Held(state)[n]
                   new == Held(state')[n]
               IN  /\ size(new) = size(old)
                   /\ \A l \in 1..Len(old) : \A r \in 1..Len(old[l]) :
                         /\ Len(new[l][r]) = Len(old[l][r])
                         /\ OtherSentence(old, r, ret'.idx, ret'.beam_size)
                               => new[l][r] = old[l][r]]_vars

\* of two sentences with two beam slots each, the slots of sentence 0 have
\* been made equal while those of sentence 1 still differ
C17_Witness ==
    /\ ret.op = "beam_update"
    /\ ret.beam_size = 2
    /\ ret.idx = 0
    /\ ret.positions = <<1, 1>>
    /\ Rows(state) = 4
    /\ state.input_feed[1][1] = state.input_feed[1][3]
    /\ state.input_feed[1][2] # state.input_feed[1][4]

(* ==================== properties of the dual-stream model =============== *)
\* position j (from 1) of the concatenated sequence holds a token of row b,
\* not padding
NonPadding(b, j) ==
    \/ j <= ret.lengths[1][b]
    \/ (j > ret.src[1] /\ j <= ret.src[1] + ret.lengths[2][b])

\* the decoder's attention gives position j of row b some weight at step t
Attended(t, b, j) ==
    /\ j <= Len(ret.memory_bank)
    /\ ret.attns["std"][t][b][j] > 0

\* C18: in the dual-stream model, for every batch element the memory
\* positions left unmasked are exactly the non-padding positions of the
\* concatenated sequence: no padding of the first stream is attended to and
\* no token of the second stream is masked out
C18_UnmaskedAreTheNonPadding ==
    (ret.op = "TwoEncoderModel" /\ ret.ok /\ ~ret.multigpu) =>
        \A t \in 1..Len(ret.attns["std"]), b \in 1..ret.src[2] :
           \A j \in 1..(ret.src[1] + ret.conversation[1]) :
              Attended(t, b, j) <=> NonPadding(b, j)

\* the same of the calls in which no row of the first stream is padded
C18_UnmaskedAreTheNonPaddingOfFullSources ==
    (ret.op = "TwoEncoderModel" /\ ret.ok /\ ~ret.multigpu
       /\ \A b \in 1..ret.src[2] : ret.lengths[1][b] = ret.src[1]) =>
        \A t \in 1..Len(ret.attns["std"]), b \in 1..ret.src[2] :
           \A j \in 1..(ret.src[1] + ret.conversation[1]) :
              Attended(t, b, j) <=> NonPadding(b, j)

====
